---- MODULE Spec2Model ----
(***************************************************************************)
(* Verification model of the deep-research repository:                     *)
(*   - deepResearch, the recursive, concurrency-bounded research scheduler *)
(*     (src/unnamed/part_009, the repository's deep-research.ts);          *)
(*   - auditContacts / verifyContact / getRandomSample, the audit engine   *)
(*     (src/src/feedback.ts lines 33-309, the repository's auditing.ts).   *)
(* The process is modelled with BYPASS_DEEP_RESEARCH unset (the mock-data  *)
(* short cuts are not taken).  JavaScript runs one callback at a time, so  *)
(* one action is everything the program does between two completions of    *)
(* an external call (language model, search service).                      *)
(***************************************************************************)
EXTENDS Integers, Sequences, FiniteSets, TLC

VARIABLES inv, br, audit, run, vc, tp

vars == <<inv, br, audit, run, vc, tp>>

(***************************************************************************)
(* Bounds of the model.                                                    *)
(***************************************************************************)
\* largest breadth a caller passes
MaxBreadth == 3
\* largest depth a caller passes
MaxDepth == 2
\* largest number of queries the language model returns in one expansion
MaxQueries == 3
\* largest breadth x depth of a top-level call
MaxWork == 4
\* largest number of contacts handed to auditContacts
MaxContacts == 2
\* largest number of contacts one verification extraction returns
MaxCandidates == 2
\* longest prompt handed to trimPrompt, in characters
MaxPromptLength == 150
\* largest number of characters of one token
MaxTokenWidth == 4
\* largest number of tokens by which a prompt exceeds the context size
\* without being cut to MinChunkSize at once
MaxOverflow == 3
\* the number of characters by which the first chunk of the splitter may
\* stay below chunkSize
MaxSlack == 2

\* const ConcurrencyLimit = Number(process.env.FIRECRAWL_CONCURRENCY) || 2
ConcurrencyLimit == 2

(***************************************************************************)
(* Generic helpers.                                                        *)
(***************************************************************************)
Min(a, b) == IF a < b THEN a ELSE b

Max(a, b) == IF a > b THEN a ELSE b

Range(s) == {s[i] : i \in 1..Len(s)}

Front(s) == SubSeq(s, 1, Len(s) - 1)

NoDup(s) == \A i, j \in 1..Len(s) : i # j => s[i] # s[j]

\* Array.prototype.slice(0, n): the number of elements kept of an array of
\* length len; a negative n counts from the end.
SliceCount(len, n) == IF n < 0 THEN Max(len + n, 0) ELSE Min(n, len)

\* mutant of CeilHalf: the half is rounded down
FloorHalf(b) == b \div 2

\* Math.ceil(breadth / 2)
CeilHalf(b) == (b + 1) \div 2

\* mutant of Dedup: the merged list is returned without the Set
DedupOmitted(s) == s

\* mutant of AwaitsExtraction: the check for empty learnings is missing
AwaitsExtractionAlways(learnings) == TRUE

\* generateContactsFromLearnings(learnings) calls generateObject unless
\* learnings.length === 0, in which case it returns []
AwaitsExtraction(learnings) == Len(learnings) # 0

\* [...new Set(s)]: the elements of s in order of first occurrence
RECURSIVE Dedup(_)
Dedup(s) ==
    IF s = <<>> THEN <<>>
    ELSE LET f == Dedup(Front(s))
             x == s[Len(s)]
         IN IF x \in Range(f) THEN f ELSE Append(f, x)

(***************************************************************************)
(* deepResearch.                                                           *)
(* An invocation is named by its path: <<>> is the top-level call, and the *)
(* invocation a branch p recurses into is named p as well.  Branch p is    *)
(* the p[Len(p)]-th sub-query of invocation Front(p).                      *)
(* inv maps the invocations made so far to their state, br the branch       *)
(* functions created so far to theirs.                                     *)
(***************************************************************************)
\* what the search service returns for one sub-query: the URLs of its documents
UrlOpts == {<<>>, <<"u1">>, <<"u2">>}

\* what the language model extracts from one search result
LearnOpts == {<<>>, <<"l1">>, <<"l2">>}

\* prior learnings and visited URLs a caller hands to the top-level call:
\* none (the default), or those of an earlier call
Priors == {[learnings |-> <<>>, visitedUrls |-> <<>>],
           [learnings |-> <<"l1">>, visitedUrls |-> <<"u1">>]}

\* a call deepResearch({query, breadth, depth, learnings, visitedUrls}) that
\* has issued generateSerpQueries and awaits it: its arguments, the number nq
\* of sub-queries it dispatched, its returned result, and which of its own
\* calls failed (as logged)
NewInv(b, d, l, u) ==
    [status |-> "gen", breadth |-> b, depth |-> d, learnings |-> l,
     visitedUrls |-> u, nq |-> 0, outLearnings |-> <<>>, outUrls |-> <<>>,
     fault |-> "none"]

\* a branch function handed to limit(): newUrls and newLearnings of its
\* search and extraction, the result it returned, and which of its calls
\* failed (as logged)
NewBr == [status |-> "queued", newUrls |-> <<>>, newLearnings |-> <<>>,
          learnings |-> <<>>, visitedUrls |-> <<>>, fault |-> "none"]

\* p-limit: the number of branch functions of q that run (started, not settled)
Active(s, q) ==
    Cardinality({i \in 1..s.inv[q].nq :
                    s.br[Append(q, i)].status \in {"search", "process", "recurse"}})

\* mutant of SlotFree: the branch functions are not passed through limit()
SlotFreeUnlimited(s, q) == TRUE

\* p-limit admits another branch function of q
SlotFree(s, q) == Active(s, q) < ConcurrencyLimit

Queued(s, q) == {i \in 1..s.inv[q].nq : s.br[Append(q, i)].status = "queued"}

\* p-limit: start queued branch functions of q, first queued first, while a
\* slot is free; a started branch function has called firecrawl.search
RECURSIVE Pump(_, _)
Pump(s, q) ==
    IF Queued(s, q) # {} /\ SlotFree(s, q)
    THEN LET i == CHOOSE k \in Queued(s, q) : \A m \in Queued(s, q) : k <= m
         IN Pump([s EXCEPT !.br[Append(q, i)].status = "search"], q)
    ELSE s

\* results.flatMap(r => r.learnings) / results.flatMap(r => r.visitedUrls)
RECURSIVE FlatLearnings(_, _, _)
FlatLearnings(s, q, n) ==
    IF n = 0 THEN <<>>
    ELSE FlatLearnings(s, q, n - 1) \o s.br[Append(q, n)].learnings

RECURSIVE FlatUrls(_, _, _)
FlatUrls(s, q, n) ==
    IF n = 0 THEN <<>>
    ELSE FlatUrls(s, q, n - 1) \o s.br[Append(q, n)].visitedUrls

\* the return statement of deepResearch
MergeLearnings(s, q) == Dedup(FlatLearnings(s, q, s.inv[q].nq))

MergeUrls(s, q) == Dedup(FlatUrls(s, q, s.inv[q].nq))

\* mutant of AllSettledOk: the invocation returns with the first branch result
AnySettledOk(s, q) == \E i \in 1..s.inv[q].nq : s.br[Append(q, i)].status = "done"

\* Promise.all of the limited branch functions has resolved
AllSettledOk(s, q) == \A i \in 1..s.inv[q].nq : s.br[Append(q, i)].status = "done"

\* what a branch whose recursive call was rejected does: the try block has
\* returned the promise of the recursive call without awaiting it, so the
\* catch block does not run and the branch function is rejected
RecursionFailed == "rejected"

\* Branch p settles with the given status ("done" with its result, or
\* "rejected"); everything that follows without a further external call:
\* p-limit starts the next queued sibling, Promise.all of the parent
\* invocation settles, the parent returns or throws to the branch that
\* awaits it, and so on upward.
RECURSIVE Settle(_, _, _, _, _)
Settle(s, p, st, l, u) ==
    LET q  == Front(p)
        s1 == [s EXCEPT !.br[p].status = st, !.br[p].learnings = l,
                        !.br[p].visitedUrls = u]
        s2 == Pump(s1, q)
    IN IF s2.inv[q].status # "running" THEN s2
       ELSE IF st = "rejected"
       THEN LET s3 == [s2 EXCEPT !.inv[q].status = "failed"]
            IN IF q = <<>> THEN s3 ELSE Settle(s3, q, RecursionFailed, <<>>, <<>>)
       ELSE IF AllSettledOk(s2, q)
       THEN LET ml == MergeLearnings(s2, q)
                mu == MergeUrls(s2, q)
                s3 == [s2 EXCEPT !.inv[q].status = "done",
                                 !.inv[q].outLearnings = ml,
                                 !.inv[q].outUrls = mu]
            IN IF q = <<>> THEN s3 ELSE Settle(s3, q, "done", ml, mu)
       ELSE s2

\* an invocation q whose generateSerpQueries call has failed throws
Throw(s, q) ==
    LET s1 == [s EXCEPT !.inv[q].status = "failed", !.inv[q].fault = "gen"]
    IN IF q = <<>> THEN s1 ELSE Settle(s1, q, RecursionFailed, <<>>, <<>>)

\* an invocation q whose serpQueries has n elements: limit() every branch,
\* await Promise.all, return the merged result
Dispatch(s, q, n) ==
    LET new == {Append(q, i) : i \in 1..n}
        s1  == [s EXCEPT !.inv[q].status = "running", !.inv[q].nq = n,
                         !.br = [p \in DOMAIN s.br \cup new |->
                                   IF p \in new THEN NewBr ELSE s.br[p]]]
        s2 == Pump(s1, q)
    IN IF n > 0 THEN s2
       ELSE LET s3 == [s2 EXCEPT !.inv[q].status = "done"]
            IN IF q = <<>> THEN s3 ELSE Settle(s3, q, "done", <<>>, <<>>)

Cur == [inv |-> inv, br |-> br]

Becomes(s) == inv' = s.inv /\ br' = s.br

\* generateSerpQueries of invocation q returns: the model answers with n
\* queries, of which .slice(0, numQueries) are kept
GenReturns(q, n) ==
    /\ q \in DOMAIN inv
    /\ inv[q].status = "gen"
    /\ Becomes(Dispatch(Cur, q, SliceCount(n, inv[q].breadth)))
    /\ UNCHANGED <<audit, run, vc, tp>>

\* mutant of GenFails: the failure is caught and taken for an empty list of queries
GenFailsCaught(q) ==
    /\ q \in DOMAIN inv
    /\ inv[q].status = "gen"
    /\ Becomes(Dispatch([Cur EXCEPT !.inv[q].fault = "gen"], q, 0))
    /\ UNCHANGED <<audit, run, vc, tp>>

\* generateSerpQueries of invocation q fails (generateObject rejects)
GenFails(q) ==
    /\ q \in DOMAIN inv
    /\ inv[q].status = "gen"
    /\ Becomes(Throw(Cur, q))
    /\ UNCHANGED <<audit, run, vc, tp>>

\* firecrawl.search of branch p returns documents with the URLs urls;
\* processSerpResult is called
SearchReturns(p, urls) ==
    /\ p \in DOMAIN br
    /\ br[p].status = "search"
    /\ br' = [br EXCEPT ![p].status = "process", ![p].newUrls = urls]
    /\ UNCHANGED <<inv, audit, run, vc, tp>>

\* mutant of SearchFails: the search call is outside the try block
SearchFailsUncaught(p) ==
    /\ p \in DOMAIN br
    /\ br[p].status = "search"
    /\ Becomes(Settle([Cur EXCEPT !.br[p].fault = "search"], p, "rejected", <<>>, <<>>))
    /\ UNCHANGED <<audit, run, vc, tp>>

\* firecrawl.search of branch p times out or fails: the catch block returns
\* the empty result
SearchFails(p) ==
    /\ p \in DOMAIN br
    /\ br[p].status = "search"
    /\ Becomes(Settle([Cur EXCEPT !.br[p].fault = "search"], p, "done", <<>>, <<>>))
    /\ UNCHANGED <<audit, run, vc, tp>>

\* mutant of ProcessReturns: the recursive call gets the depth of its caller
ProcessReturnsSameDepth(p, newL) ==
    /\ p \in DOMAIN br
    /\ br[p].status = "process"
    /\ LET q            == Front(p)
           newBreadth   == CeilHalf(inv[q].breadth)
           newDepth     == inv[q].depth
           allLearnings == inv[q].learnings \o newL
           allUrls      == inv[q].visitedUrls \o br[p].newUrls
       IN IF newDepth > 0
          THEN /\ br' = [br EXCEPT ![p].status = "recurse",
                                   ![p].newLearnings = newL]
               /\ inv' = [r \in DOMAIN inv \cup {p} |->
                            IF r = p THEN NewInv(newBreadth, newDepth,
                                                 allLearnings, allUrls)
                            ELSE inv[r]]
          ELSE Becomes(Settle([Cur EXCEPT !.br[p].newLearnings = newL],
                              p, "done", allLearnings, allUrls))
    /\ UNCHANGED <<audit, run, vc, tp>>

\* processSerpResult of branch p returns the learnings newL
ProcessReturns(p, newL) ==
    /\ p \in DOMAIN br
    /\ br[p].status = "process"
    /\ LET q            == Front(p)
           newBreadth   == CeilHalf(inv[q].breadth)
           newDepth     == inv[q].depth - 1
           allLearnings == inv[q].learnings \o newL
           allUrls      == inv[q].visitedUrls \o br[p].newUrls
       IN IF newDepth > 0
          THEN /\ br' = [br EXCEPT ![p].status = "recurse",
                                   ![p].newLearnings = newL]
               /\ inv' = [r \in DOMAIN inv \cup {p} |->
                            IF r = p THEN NewInv(newBreadth, newDepth,
                                                 allLearnings, allUrls)
                            ELSE inv[r]]
          ELSE Becomes(Settle([Cur EXCEPT !.br[p].newLearnings = newL],
                              p, "done", allLearnings, allUrls))
    /\ UNCHANGED <<audit, run, vc, tp>>

\* mutant of ProcessFails: the extraction is not awaited inside the try block
ProcessFailsUncaught(p) ==
    /\ p \in DOMAIN br
    /\ br[p].status = "process"
    /\ Becomes(Settle([Cur EXCEPT !.br[p].fault = "process"], p, "rejected", <<>>, <<>>))
    /\ UNCHANGED <<audit, run, vc, tp>>

\* processSerpResult of branch p fails: the catch block returns the empty result
ProcessFails(p) ==
    /\ p \in DOMAIN br
    /\ br[p].status = "process"
    /\ Becomes(Settle([Cur EXCEPT !.br[p].fault = "process"], p, "done", <<>>, <<>>))
    /\ UNCHANGED <<audit, run, vc, tp>>

AuditIdle == [pc |-> "idle"]

RunIdle == [pc |-> "idle"]

VcIdle == [pc |-> "idle"]

TpIdle == [pc |-> "idle"]

InitResearch ==
    /\ \E b \in -1..MaxBreadth, d \in -1..MaxDepth, prior \in Priors :
          /\ b * d <= MaxWork
          /\ inv = [q \in {<<>>} |-> NewInv(b, d, prior.learnings, prior.visitedUrls)]
    /\ br = [p \in {} |-> NewBr]
    /\ audit = AuditIdle
    /\ run = RunIdle
    /\ vc = VcIdle
    /\ tp = TpIdle

NextResearch ==
    \/ \E q \in DOMAIN inv, n \in 0..MaxQueries : GenReturns(q, n)
    \/ \E q \in DOMAIN inv : GenFails(q)
    \/ \E p \in DOMAIN br, urls \in UrlOpts : SearchReturns(p, urls)
    \/ \E p \in DOMAIN br : SearchFails(p)
    \/ \E p \in DOMAIN br, newL \in LearnOpts : ProcessReturns(p, newL)
    \/ \E p \in DOMAIN br : ProcessFails(p)

SpecResearch == InitResearch /\ [][NextResearch]_vars

\* A top-level call one level deeper than MaxDepth, without prior learnings,
\* whose services answer every call that returns in the same way: the
\* language model with MaxQueries queries and one learning, the search
\* service with one document; a generateSerpQueries call may fail.
InitDeep ==
    /\ \E b \in 1..MaxBreadth, d \in 1..(MaxDepth + 1) :
          inv = [q \in {<<>>} |-> NewInv(b, d, <<>>, <<>>)]
    /\ br = [p \in {} |-> NewBr]
    /\ audit = AuditIdle
    /\ run = RunIdle
    /\ vc = VcIdle
    /\ tp = TpIdle

NextDeep ==
    \/ \E q \in DOMAIN inv : GenReturns(q, MaxQueries)
    \/ \E q \in DOMAIN inv : GenFails(q)
    \/ \E p \in DOMAIN br : SearchReturns(p, <<"u1">>)
    \/ \E p \in DOMAIN br : ProcessReturns(p, <<"l1">>)

SpecDeep == InitDeep /\ [][NextDeep]_vars


(***************************************************************************)
(* Contacts.  A contact is a function from field names to values; an       *)
(* optional field that is not set is not in its domain.  priority stands   *)
(* for the fields that are neither compared nor used for matching          *)
(* (timeZone, signal, signalLevel, compliment, links, source).             *)
(***************************************************************************)
UpperLetters == "ABCDEFGHIJKLMNOPQRSTUVWXYZ"

LowerLetters == "abcdefghijklmnopqrstuvwxyz"

CharAt(s, i) == SubSeq(s, i, i)

UpperSet == {CharAt(UpperLetters, i) : i \in 1..Len(UpperLetters)}

\* the lower-case letter of each upper-case letter
LowerOf ==
    [c \in UpperSet |->
        CharAt(LowerLetters, CHOOSE i \in 1..Len(UpperLetters) : CharAt(UpperLetters, i) = c)]

\* String.prototype.toLowerCase
RECURSIVE ToLowerCase(_)
ToLowerCase(s) ==
    IF s = "" THEN ""
    ELSE LET c == CharAt(s, 1)
         IN (IF c \in UpperSet THEN LowerOf[c] ELSE c) \o ToLowerCase(SubSeq(s, 2, Len(s)))

\* String.prototype.includes: t occurs in s
Includes(s, t) ==
    \E i \in 1..(Len(s) - Len(t) + 1) : SubSeq(s, i, i + Len(t) - 1) = t

\* Array.prototype.join(',') as String() applies it to an array
RECURSIVE JoinComma(_)
JoinComma(a) ==
    IF a = <<>> THEN ""
    ELSE IF Len(a) = 1 THEN a[1]
    ELSE a[1] \o "," \o JoinComma(Tail(a))

\* const fields: (keyof Contact)[] = [...]
DiffFields == <<"name", "email", "company", "position", "department", "city",
                "stateProvince", "country", "industry", "tags">>

\* String(contact[field] || '')
StringOf(c, f) ==
    IF f \notin DOMAIN c THEN ""
    ELSE IF f = "tags" THEN JoinComma(c[f])
    ELSE c[f]

Reason == "Verification research found updated information"

Ann == [name |-> "Ann Lee", email |-> "ann@x.io", company |-> "Xco",
        position |-> "CEO", department |-> "Exec", city |-> "SF",
        stateProvince |-> "CA", country |-> "US", industry |-> "Tech",
        tags |-> <<"AI", "CEO">>, number |-> "555", priority |-> 9]

Bob == [name |-> "Bob Ray", email |-> "bob@y.io", company |-> "Yco",
        position |-> "CTO", city |-> "SF",
        stateProvince |-> "CA", country |-> "US", industry |-> "Tech",
        tags |-> <<"CTO">>, priority |-> 8]

\* the records handed to auditContacts: two people, a record without an
\* email, and a second person recorded under Ann's email
Originals ==
    {Ann, Bob, [Ann EXCEPT !.email = ""], [Bob EXCEPT !.email = "ann@x.io"]}

\* the records a verification extraction returns: Ann with a new title;
\* Ann with another email, a longer name and another company; a record with
\* her email in capitals, a shorter name, another title, another priority and
\* no department;
\* Bob with no email in another city; and another person in Bob's company
\* and role
Candidates ==
    {[Ann EXCEPT !.position = "Chief"],
     [Ann EXCEPT !.email = "new@x.io", !.name = "Dr Ann Lee", !.company = "Wco"],
     [f \in DOMAIN Ann \ {"department"} |->
         IF f = "email" THEN "ANN@X.IO"
         ELSE IF f = "name" THEN "Ann"
         ELSE IF f = "position" THEN "Head"
         ELSE IF f = "priority" THEN 3
         ELSE Ann[f]],
     [Bob EXCEPT !.email = "", !.city = "NYC"],
     [name |-> "Cy Orr", email |-> "cy@z.io", company |-> "YCO",
      position |-> "CTO and VP", department |-> "", city |-> "LA",
      stateProvince |-> "CA", country |-> "US", industry |-> "Ads",
      tags |-> <<>>, priority |-> 5]}

SeqsUpTo(S, n) == UNION {[1..k -> S] : k \in 0..n}

\* the lists of contacts a verification extraction may return
CandidateLists == SeqsUpTo(Candidates, MaxCandidates)

\* the lists of contacts auditContacts may be called with
ContactLists == SeqsUpTo(Originals, MaxContacts)

Perms(n) == {f \in [1..n -> 1..n] : \A i, j \in 1..n : i # j => f[i] # f[j]}

\* getRandomSample(array, sampleSize): the positions in array of the sampled
\* elements; perm is the order the random sort leaves the copy in
GetRandomSample(len, sampleSize, perm) ==
    IF len <= sampleSize THEN [i \in 1..len |-> i]
    ELSE SubSeq(perm, 1, SliceCount(len, sampleSize))

\* mutant of Matches: the name rule also asks for the company and position
MatchesNameWithRole(c, contact) ==
    \/ /\ Includes(ToLowerCase(c.name), ToLowerCase(contact.name))
       /\ ToLowerCase(c.company) = ToLowerCase(contact.company)
       /\ Includes(ToLowerCase(c.position), ToLowerCase(contact.position))
    \/ ToLowerCase(c.email) = ToLowerCase(contact.email)
    \/ /\ ToLowerCase(c.company) = ToLowerCase(contact.company)
       /\ Includes(ToLowerCase(c.position), ToLowerCase(contact.position))

\* the predicate of verifiedContacts.find
Matches(c, contact) ==
    \/ Includes(ToLowerCase(c.name), ToLowerCase(contact.name))
    \/ ToLowerCase(c.email) = ToLowerCase(contact.email)
    \/ /\ ToLowerCase(c.company) = ToLowerCase(contact.company)
       /\ Includes(ToLowerCase(c.position), ToLowerCase(contact.position))

\* Array.prototype.find from position i on: the position of the first
\* candidate the predicate accepts, 0 when there is none
RECURSIVE FindFrom(_, _, _)
FindFrom(list, contact, i) ==
    IF i > Len(list) THEN 0
    ELSE IF Matches(list[i], contact) THEN i
    ELSE FindFrom(list, contact, i + 1)

\* verifiedContacts.find(...) || verifiedContacts[0]: the position of the
\* chosen candidate, 0 when there is none
MatchIndex(list, contact) ==
    LET found == FindFrom(list, contact, 1)
    IN IF found # 0 THEN found
       ELSE IF Len(list) > 0 THEN 1 ELSE 0

\* mutant of CorrectionsUpTo: a correction is recorded for every difference,
\* empty values included
RECURSIVE CorrectionsOfAnyDifference(_, _, _)
CorrectionsOfAnyDifference(contact, v, n) ==
    IF n = 0 THEN <<>>
    ELSE LET f             == DiffFields[n]
             originalValue == StringOf(contact, f)
             verifiedValue == StringOf(v, f)
             before        == CorrectionsOfAnyDifference(contact, v, n - 1)
         IN IF originalValue # verifiedValue
            THEN Append(before, [email |-> contact.email, field |-> f,
                                 before |-> originalValue, after |-> verifiedValue,
                                 reason |-> Reason])
            ELSE before

\* the loop over fields: the corrections for fields 1..n
RECURSIVE CorrectionsUpTo(_, _, _)
CorrectionsUpTo(contact, v, n) ==
    IF n = 0 THEN <<>>
    ELSE LET f             == DiffFields[n]
             originalValue == StringOf(contact, f)
             verifiedValue == StringOf(v, f)
             before        == CorrectionsUpTo(contact, v, n - 1)
         IN IF originalValue # "" /\ verifiedValue # "" /\ originalValue # verifiedValue
            THEN Append(before, [email |-> contact.email, field |-> f,
                                 before |-> originalValue, after |-> verifiedValue,
                                 reason |-> Reason])
            ELSE before

\* email: verifiedContact.email || contact.email
MergedEmail(contact, v) ==
    IF "email" \in DOMAIN v /\ v.email # "" THEN v.email ELSE contact.email

\* const finalContact = { ...contact, ...verifiedContact, email: ... }
FinalContact(contact, v) ==
    [f \in DOMAIN contact \cup DOMAIN v \cup {"email"} |->
        IF f = "email" THEN MergedEmail(contact, v)
        ELSE IF f \in DOMAIN v THEN v[f]
        ELSE contact[f]]

\* verifyContact once deepResearch and generateContactsFromLearnings have
\* returned the list verifiedContacts
VerifyContact(contact, list) ==
    LET m == MatchIndex(list, contact)
    IN IF m = 0
       THEN [verifiedContact |-> contact, corrections |-> <<>>, outcome |-> "noCandidate"]
       ELSE [verifiedContact |-> FinalContact(contact, list[m]),
             corrections |-> CorrectionsUpTo(contact, list[m], Len(DiffFields)),
             outcome |-> "merged"]

\* verifyContact tabulated over the records and lists of the model; @@ <<>>
\* leaves a function as it is and has TLC build the table once
Verification ==
    [contact \in Originals |->
        [list \in CandidateLists |-> VerifyContact(contact, list)] @@ <<>>] @@ <<>>

\* the catch block of verifyContact
VerifyFailed(contact, what) ==
    [verifiedContact |-> contact, corrections |-> <<>>, outcome |-> what]

(***************************************************************************)
(* One call of verifyContact on its own: the record it is given, the list  *)
(* the extraction returned, the position of the candidate it chose and     *)
(* what it returned.                                                       *)
(***************************************************************************)
\* what deepResearch returns to verifyContact: no learning, or one
ReResearched == {<<>>, <<"l1">>}

\* verifyContact has been called with contact and awaits deepResearch
NewVc(contact) ==
    [pc |-> "research", contact |-> contact, list |-> <<>>, chosen |-> 0,
     verifiedContact |-> contact, corrections |-> <<>>, outcome |-> "pending"]

\* verifyContact returns r, having chosen the candidate at position chosen
\* of list
VcReturned(v, list, chosen, r) ==
    [v EXCEPT !.pc = "returned", !.list = list, !.chosen = chosen,
              !.verifiedContact = r.verifiedContact,
              !.corrections = r.corrections, !.outcome = r.outcome]

\* deepResearch returns learnings, which are handed to
\* generateContactsFromLearnings
VcResearchReturns(learnings) ==
    /\ vc.pc = "research"
    /\ vc' = IF AwaitsExtraction(learnings) THEN [vc EXCEPT !.pc = "extract"]
             ELSE VcReturned(vc, <<>>, 0, Verification[vc.contact][<<>>])
    /\ UNCHANGED <<inv, br, audit, run, tp>>

\* deepResearch throws: the catch block returns the original
VcResearchFails ==
    /\ vc.pc = "research"
    /\ vc' = VcReturned(vc, <<>>, 0, VerifyFailed(vc.contact, "researchFailed"))
    /\ UNCHANGED <<inv, br, audit, run, tp>>

\* generateContactsFromLearnings returns list
VcExtractReturns(list) ==
    /\ vc.pc = "extract"
    /\ vc' = VcReturned(vc, list, MatchIndex(list, vc.contact),
                        Verification[vc.contact][list])
    /\ UNCHANGED <<inv, br, audit, run, tp>>

\* generateContactsFromLearnings throws: the catch block returns the original
VcExtractFails ==
    /\ vc.pc = "extract"
    /\ vc' = VcReturned(vc, <<>>, 0, VerifyFailed(vc.contact, "extractFailed"))
    /\ UNCHANGED <<inv, br, audit, run, tp>>

InitVerify ==
    /\ \E contact \in Originals : vc = NewVc(contact)
    /\ inv = <<>>
    /\ br = <<>>
    /\ audit = AuditIdle
    /\ run = RunIdle
    /\ tp = TpIdle

NextVerify ==
    \/ \E learnings \in ReResearched : VcResearchReturns(learnings)
    \/ VcResearchFails
    \/ \E list \in CandidateLists : VcExtractReturns(list)
    \/ VcExtractFails

SpecVerify == InitVerify /\ [][NextVerify]_vars

(***************************************************************************)
(* auditContacts.  The Map verifiedContactsMap is the sequence keys of its *)
(* keys in insertion order and the function vals on them.                  *)
(***************************************************************************)
\* mutant of StoreKey: the result is stored under the verified contact's email
StoreKeyVerified(contact, verifiedContact) == verifiedContact.email

\* the key under which auditContacts stores the result of a verification
StoreKey(contact, verifiedContact) == contact.email

\* Map.prototype.set
MapSet(m, k, v) ==
    [keys |-> IF k \in Range(m.keys) THEN m.keys ELSE Append(m.keys, k),
     vals |-> [x \in Range(m.keys) \cup {k} |-> IF x = k THEN v ELSE m.vals[x]]]

\* mutant of InitialMap: the map is not filled with the input records
InitialMapEmpty(contacts, n) == [keys |-> <<>>, vals |-> <<>>]

\* contacts.forEach(contact => verifiedContactsMap.set(contact.email, contact))
RECURSIVE InitialMap(_, _)
InitialMap(contacts, n) ==
    IF n = 0 THEN [keys |-> <<>>, vals |-> <<>>]
    ELSE MapSet(InitialMap(contacts, n - 1), contacts[n].email, contacts[n])

\* Array.from(verifiedContactsMap.values())
MapValues(m) == [k \in 1..Len(m.keys) |-> m.vals[m.keys[k]]]

\* auditContacts has been called with contacts and criteria.sampleSize
NewAudit(contacts, sampleSize) ==
    [pc |-> "called", contacts |-> contacts, sampleSize |-> sampleSize,
     sample |-> <<>>, map |-> [keys |-> <<>>, vals |-> <<>>],
     corrections |-> <<>>, log |-> <<>>, verifiedContacts |-> <<>>,
     learnings |-> <<>>, extractCalls |-> 0]

\* mutant of Continue: a failed verification ends the loop
ContinueUntilFailure(a) ==
    IF /\ Len(a.log) < Len(a.sample)
       /\ (a.log = <<>> \/ a.log[Len(a.log)].outcome = "merged")
    THEN [a EXCEPT !.pc = "research"]
    ELSE [a EXCEPT !.pc = "done", !.verifiedContacts = MapValues(a.map)]

\* the verification loop from its position on: call verifyContact for the
\* next sampled contact (it awaits deepResearch), or build the result
Continue(a) ==
    IF Len(a.log) < Len(a.sample)
    THEN [a EXCEPT !.pc = "research"]
    ELSE [a EXCEPT !.pc = "done", !.verifiedContacts = MapValues(a.map)]

\* the body of the loop once verifyContact has returned r for sample[i]
Verified(a, r) ==
    LET contact == a.contacts[a.sample[Len(a.log) + 1]]
    IN Continue([a EXCEPT
          !.map = MapSet(a.map, StoreKey(contact, r.verifiedContact), r.verifiedContact),
          !.corrections = a.corrections \o r.corrections,
          !.log = Append(a.log, [outcome |-> r.outcome,
                                 ncorr |-> Len(r.corrections),
                                 hadLearnings |-> a.learnings # <<>>]),
          !.learnings = <<>>])

CurrentContact == audit.contacts[audit.sample[Len(audit.log) + 1]]

\* auditContacts runs up to its first await
AuditStart(perm) ==
    /\ audit.pc = "called"
    /\ audit' =
         IF Len(audit.contacts) = 0
         THEN [audit EXCEPT !.pc = "done"]
         ELSE Continue([audit EXCEPT
                  !.sample = GetRandomSample(Len(audit.contacts), audit.sampleSize, perm),
                  !.map = InitialMap(audit.contacts, Len(audit.contacts))])
    /\ UNCHANGED <<inv, br, run, vc, tp>>

\* deepResearch of the current verification throws
ResearchFails ==
    /\ audit.pc = "research"
    /\ audit' = Verified(audit, VerifyFailed(CurrentContact, "researchFailed"))
    /\ UNCHANGED <<inv, br, run, vc, tp>>

\* deepResearch of the current verification returns learnings, which are
\* handed to generateContactsFromLearnings
ResearchReturns(learnings) ==
    /\ audit.pc = "research"
    /\ audit' = IF AwaitsExtraction(learnings)
                THEN [audit EXCEPT !.pc = "extract", !.learnings = learnings,
                                   !.extractCalls = audit.extractCalls + 1]
                ELSE Verified(audit, Verification[CurrentContact][<<>>])
    /\ UNCHANGED <<inv, br, run, vc, tp>>

\* generateContactsFromLearnings of the current verification throws
ExtractFails ==
    /\ audit.pc = "extract"
    /\ audit' = Verified(audit, VerifyFailed(CurrentContact, "extractFailed"))
    /\ UNCHANGED <<inv, br, run, vc, tp>>

\* generateContactsFromLearnings of the current verification returns list
ExtractReturns(list) ==
    /\ audit.pc = "extract"
    /\ audit' = Verified(audit, Verification[CurrentContact][list])
    /\ UNCHANGED <<inv, br, run, vc, tp>>

InitAudit ==
    /\ \E contacts \in ContactLists,
          sampleSize \in -1..(MaxContacts + 1) :
          audit = NewAudit(contacts, sampleSize)
    /\ inv = <<>>
    /\ br = <<>>
    /\ run = RunIdle
    /\ vc = VcIdle
    /\ tp = TpIdle

NextAudit ==
    \/ \E perm \in Perms(Len(audit.contacts)) : AuditStart(perm)
    \/ ResearchFails
    \/ \E learnings \in ReResearched : ResearchReturns(learnings)
    \/ ExtractFails
    \/ \E list \in CandidateLists : ExtractReturns(list)

SpecAudit == InitAudit /\ [][NextAudit]_vars

(***************************************************************************)
(* The run pipeline (src/src/run.ts) from the return of deepResearch on,    *)
(* with insertContacts (src/src/database.ts) and the email report           *)
(* (src/src/feedback.ts lines 554-700, the repository's email-report.ts).   *)
(* One action is the completion of one awaited call: a language-model      *)
(* call, a database call, a timer, an email send, a file write.            *)
(***************************************************************************)
\* const batchSize = 50
BatchSize == 50

\* maxRetries: number = 3
MaxRetries == 3

\* insertSingleContact: !normalizedContact.email || !normalizedContact.name
MissingRequired(c) == c.email = "" \/ c.name = ""

\* insertContacts has called withRetry, whose first attempt awaits
\* currentPool.connect(): the attempt and the step it awaits, the batch and
\* the contact it is at, the InsertionResult so far, whether a client is
\* held and whether a transaction is open
NewDb ==
    [step |-> "connect", attempt |-> 1, batch |-> 0, i |-> 0,
     inserted |-> 0, updated |-> 0, rejected |-> 0, errors |-> 0,
     held |-> FALSE, txn |-> FALSE]

\* the InsertionResult insertContacts returns
ResultOf(d) ==
    [inserted |-> d.inserted, updated |-> d.updated, rejected |-> d.rejected,
     errors |-> d.errors]

NoResult == [inserted |-> 0, updated |-> 0, rejected |-> 0, errors |-> 0]

\* the run after deepResearch has returned learnings: with outputFormat
\* 'contacts_db' generateContactsFromLearnings is called
NewRun(format, criteria, emailEnabled, learnings) ==
    [pc |-> IF format = "contacts_db" /\ AwaitsExtraction(learnings) THEN "extract"
            ELSE "final",
     format |-> format, criteria |-> criteria, emailEnabled |-> emailEnabled,
     contacts |-> <<>>, ncorr |-> 0, db |-> NewDb, returned |-> FALSE,
     dbResult |-> NoResult, attempt |-> 0, sends |-> 0, delivered |-> FALSE,
     files |-> <<>>, mentions |-> FALSE, lastError |-> 0, thrown |-> 0]

\* writeFinalReport or writeFinalAnswer is called
FinalStage(r) == [r EXCEPT !.pc = "final"]

\* await fs.writeFile('contacts.json', ...)
AfterEmail(r) == [r EXCEPT !.pc = "writeContacts"]

\* generateAndSendReport: sendEmailReport returns without sending when
\* RESEND_API_KEY or the recipient is not configured, and calls
\* resend.emails.send inside withRetry otherwise
SendReport(r) ==
    IF r.emailEnabled
    THEN [r EXCEPT !.pc = "email", !.attempt = 1, !.sends = r.sends + 1]
    ELSE AfterEmail(r)

\* insertContacts returns its result to run, which sends the email report
\* whatever the result is.  (The catch block of run, which sends the report
\* as well, needs insertContacts to throw; its own catch block returns the
\* result instead.)
Returned(r, d) ==
    SendReport([r EXCEPT !.db = d, !.returned = TRUE, !.dbResult = ResultOf(d)])

\* an attempt of withRetry has thrown: after the last attempt the catch
\* block of insertContacts records the error and returns the result,
\* before that the backoff timer is awaited
AttemptFailed(r, d) ==
    IF d.attempt = MaxRetries
    THEN Returned(r, [d EXCEPT !.step = "returned", !.errors = d.errors + 1])
    ELSE [r EXCEPT !.db = [d EXCEPT !.step = "backoff"]]

\* the last position of the current batch
BatchEnd(d, n) == Min((d.batch + 1) * BatchSize, n)

\* the loop over the contacts of a batch from contact i + 1 on: contacts
\* without email or name are rejected without a query; the next other
\* contact is sent to the database; after the last one COMMIT is sent
RECURSIVE NextContact(_, _)
NextContact(d, contacts) ==
    IF d.i >= BatchEnd(d, Len(contacts)) THEN [d EXCEPT !.step = "commit"]
    ELSE IF MissingRequired(contacts[d.i + 1])
    THEN NextContact([d EXCEPT !.i = d.i + 1, !.rejected = d.rejected + 1,
                               !.errors = d.errors + 1], contacts)
    ELSE [d EXCEPT !.i = d.i + 1, !.step = "insert"]

\* run calls insertContacts(contacts)
InsertContacts(r) ==
    IF Len(r.contacts) = 0
    THEN Returned(r, [NewDb EXCEPT !.step = "returned"])
    ELSE [r EXCEPT !.pc = "insert", !.db = NewDb]

\* generateContactsFromLearnings returns list
RunExtractReturns(list) ==
    /\ run.pc = "extract"
    /\ run' = IF run.criteria /\ Len(list) > 0
              THEN [run EXCEPT !.pc = "audit", !.contacts = list]
              ELSE FinalStage([run EXCEPT !.contacts = list])
    /\ UNCHANGED <<inv, br, audit, vc, tp>>

\* a language-model call of run fails: run rejects and the process exits
RunCallFails ==
    /\ run.pc \in {"extract", "summary", "final"}
    /\ run' = [run EXCEPT !.pc = "crashed"]
    /\ UNCHANGED <<inv, br, audit, vc, tp>>

\* auditContacts returns verified and ncorr corrections; with no correction
\* generateAuditSummary returns without a call
RunAuditReturns(verified, ncorr) ==
    /\ run.pc = "audit"
    /\ Len(verified) \in 1..Len(run.contacts)
    /\ LET r == [run EXCEPT !.contacts = verified, !.ncorr = ncorr]
       IN run' = IF ncorr = 0 THEN InsertContacts(r) ELSE [r EXCEPT !.pc = "summary"]
    /\ UNCHANGED <<inv, br, audit, vc, tp>>

\* generateAuditSummary returns
RunSummaryReturns ==
    /\ run.pc = "summary"
    /\ run' = InsertContacts(run)
    /\ UNCHANGED <<inv, br, audit, vc, tp>>

\* currentPool.connect() returns a client; BEGIN is sent
ConnectReturns ==
    /\ run.pc = "insert" /\ run.db.step = "connect"
    /\ run' = [run EXCEPT !.db.step = "begin", !.db.held = TRUE]
    /\ UNCHANGED <<inv, br, audit, vc, tp>>

\* currentPool.connect() fails
ConnectFails ==
    /\ run.pc = "insert" /\ run.db.step = "connect"
    /\ run' = AttemptFailed(run, run.db)
    /\ UNCHANGED <<inv, br, audit, vc, tp>>

\* BEGIN returns
BeginReturns ==
    /\ run.pc = "insert" /\ run.db.step = "begin"
    /\ run' = [run EXCEPT !.db = NextContact([run.db EXCEPT !.txn = TRUE], run.contacts)]
    /\ UNCHANGED <<inv, br, audit, vc, tp>>

\* BEGIN fails: the finally block releases the client
BeginFails ==
    /\ run.pc = "insert" /\ run.db.step = "begin"
    /\ run' = AttemptFailed(run, [run.db EXCEPT !.held = FALSE])
    /\ UNCHANGED <<inv, br, audit, vc, tp>>

\* the upsert of contact i returns a row: its column inserted tells an
\* insertion from an update
InsertReturns(wasInserted) ==
    /\ run.pc = "insert" /\ run.db.step = "insert"
    /\ LET d == IF wasInserted
                THEN [run.db EXCEPT !.inserted = run.db.inserted + 1]
                ELSE [run.db EXCEPT !.updated = run.db.updated + 1]
       IN run' = [run EXCEPT !.db = NextContact(d, run.contacts)]
    /\ UNCHANGED <<inv, br, audit, vc, tp>>

\* the upsert of contact i fails: insertSingleContact catches the error and
\* reports the contact as rejected
InsertFails ==
    /\ run.pc = "insert" /\ run.db.step = "insert"
    /\ run' = [run EXCEPT !.db =
                  NextContact([run.db EXCEPT !.rejected = run.db.rejected + 1,
                                             !.errors = run.db.errors + 1],
                              run.contacts)]
    /\ UNCHANGED <<inv, br, audit, vc, tp>>

\* COMMIT returns: the next batch begins, or the client is released and
\* insertContacts returns
CommitReturns ==
    /\ run.pc = "insert" /\ run.db.step = "commit"
    /\ run' = IF run.db.i < Len(run.contacts)
              THEN [run EXCEPT !.db.step = "begin", !.db.txn = FALSE,
                               !.db.batch = run.db.batch + 1]
              ELSE Returned(run, [run.db EXCEPT !.step = "returned", !.txn = FALSE,
                                                !.held = FALSE])
    /\ UNCHANGED <<inv, br, audit, vc, tp>>

\* COMMIT fails: ROLLBACK is sent
CommitFails ==
    /\ run.pc = "insert" /\ run.db.step = "commit"
    /\ run' = [run EXCEPT !.db.step = "rollback"]
    /\ UNCHANGED <<inv, br, audit, vc, tp>>

\* ROLLBACK returns (ok) or fails: the error is thrown and the client released
RollbackSettles(ok) ==
    /\ run.pc = "insert" /\ run.db.step = "rollback"
    /\ run' = AttemptFailed(run, [run.db EXCEPT !.held = FALSE,
                                                !.txn = IF ok THEN FALSE ELSE @])
    /\ UNCHANGED <<inv, br, audit, vc, tp>>

\* the backoff timer of withRetry fires: the operation is invoked again
BackoffElapsed ==
    /\ run.pc = "insert" /\ run.db.step = "backoff"
    /\ run' = [run EXCEPT !.db.step = "connect", !.db.attempt = run.db.attempt + 1,
                          !.db.batch = 0, !.db.i = 0, !.db.txn = FALSE]
    /\ UNCHANGED <<inv, br, audit, vc, tp>>

\* resend.emails.send returns
EmailReturns ==
    /\ run.pc = "email"
    /\ run' = AfterEmail([run EXCEPT !.delivered = TRUE])
    /\ UNCHANGED <<inv, br, audit, vc, tp>>

\* mutant of EmailFails: the loop makes one attempt more
EmailFailsOnceMore ==
    /\ run.pc = "email"
    /\ LET r == [run EXCEPT !.lastError = run.attempt]
       IN run' = IF run.attempt = MaxRetries + 1
                 THEN AfterEmail([r EXCEPT !.thrown = r.lastError])
                 ELSE [r EXCEPT !.pc = "emailBackoff"]
    /\ UNCHANGED <<inv, br, audit, vc, tp>>

\* resend.emails.send fails in attempt run.attempt: withRetry keeps the error
\* as lastError, waits and sends again, and after the last attempt throws
\* lastError, which sendEmailReport catches
EmailFails ==
    /\ run.pc = "email"
    /\ LET r == [run EXCEPT !.lastError = run.attempt]
       IN run' = IF run.attempt = MaxRetries
                 THEN AfterEmail([r EXCEPT !.thrown = r.lastError])
                 ELSE [r EXCEPT !.pc = "emailBackoff"]
    /\ UNCHANGED <<inv, br, audit, vc, tp>>

EmailBackoffElapsed ==
    /\ run.pc = "emailBackoff"
    /\ run' = [run EXCEPT !.pc = "email", !.attempt = run.attempt + 1,
                          !.sends = run.sends + 1]
    /\ UNCHANGED <<inv, br, audit, vc, tp>>

\* contacts.json has been written
WriteContactsReturns ==
    /\ run.pc = "writeContacts"
    /\ LET r == [run EXCEPT !.files = Append(run.files, "contacts.json")]
       IN run' = IF run.ncorr > 0 THEN [r EXCEPT !.pc = "writeCorrections"]
                 ELSE FinalStage(r)
    /\ UNCHANGED <<inv, br, audit, vc, tp>>

\* corrections.json has been written
WriteCorrectionsReturns ==
    /\ run.pc = "writeCorrections"
    /\ run' = FinalStage([run EXCEPT !.files = Append(run.files, "corrections.json")])
    /\ UNCHANGED <<inv, br, audit, vc, tp>>

\* writeFinalReport or writeFinalAnswer returns; the report gets the line
\* 'Contact details saved to contacts.json' when contacts were extracted
FinalReturns ==
    /\ run.pc = "final"
    /\ run' = [run EXCEPT !.pc = "writeOutput",
                          !.mentions = /\ run.format = "contacts_db"
                                       /\ Len(run.contacts) > 0]
    /\ UNCHANGED <<inv, br, audit, vc, tp>>

\* report.md or answer.md has been written; the pool is closed
WriteOutputReturns ==
    /\ run.pc = "writeOutput"
    /\ run' = [run EXCEPT !.pc = "done",
                          !.files = Append(run.files,
                                           IF run.format = "answer" THEN "answer.md"
                                           ELSE "report.md")]
    /\ UNCHANGED <<inv, br, audit, vc, tp>>

InitRun ==
    /\ \E format \in {"contacts_db", "report", "answer"},
          criteria \in BOOLEAN, emailEnabled \in BOOLEAN, learnings \in LearnOpts :
          run = NewRun(format, criteria, emailEnabled, learnings)
    /\ inv = <<>>
    /\ br = <<>>
    /\ audit = AuditIdle
    /\ vc = VcIdle
    /\ tp = TpIdle

NextRun ==
    \/ \E list \in ContactLists : RunExtractReturns(list)
    \/ RunCallFails
    \/ \E verified \in ContactLists, ncorr \in 0..1 : RunAuditReturns(verified, ncorr)
    \/ RunSummaryReturns
    \/ ConnectReturns
    \/ ConnectFails
    \/ BeginReturns
    \/ BeginFails
    \/ \E wasInserted \in BOOLEAN : InsertReturns(wasInserted)
    \/ InsertFails
    \/ CommitReturns
    \/ CommitFails
    \/ \E ok \in BOOLEAN : RollbackSettles(ok)
    \/ BackoffElapsed
    \/ EmailReturns
    \/ EmailFails
    \/ EmailBackoffElapsed
    \/ WriteContactsReturns
    \/ WriteCorrectionsReturns
    \/ FinalReturns
    \/ WriteOutputReturns

SpecRun == InitRun /\ [][NextRun]_vars

(***************************************************************************)
(* trimPrompt (src/src/ai/providers.ts lines 85-123).  A prompt is known   *)
(* by its number of characters and its number of tokens.  What the        *)
(* o200k_base encoder makes of a piece of a prompt depends on the text:    *)
(* every count between one token per character and one token per         *)
(* MaxTokenWidth characters is possible.  text-splitter.ts is not among    *)
(* the sources: the first chunk of RecursiveCharacterTextSplitter is a     *)
(* trimmed piece of the text of at most chunkSize characters, possibly     *)
(* none; trimPrompt itself provides for a chunk as long as the prompt.     *)
(***************************************************************************)
\* const MinChunkSize = 140
MinChunkSize == 140

CeilDiv(a, b) == (a + b - 1) \div b

\* encoder.encode(text).length for a text of len characters
TokenCounts(len) == {CeilDiv(len, w) : w \in 1..MaxTokenWidth}

\* the prompts of the model
Prompts ==
    UNION {{[len |-> len, tokens |-> t] : t \in TokenCounts(len)} :
              len \in 0..MaxPromptLength}

\* the context sizes a prompt is trimmed to: none or less, and those the
\* prompt fits or exceeds by a few tokens
ContextSizes(prompt) == {-1, 0} \cup {prompt.tokens - o : o \in -1..MaxOverflow}

\* const overflowTokens = length - contextSize
OverflowTokens(prompt, contextSize) == prompt.tokens - contextSize

\* mutant of ChunkSize: the estimate of the overflow is added
ChunkSizeGrowing(prompt, contextSize) ==
    prompt.len + OverflowTokens(prompt, contextSize) * 3

\* const chunkSize = prompt.length - overflowTokens * 3
ChunkSize(prompt, contextSize) ==
    prompt.len - OverflowTokens(prompt, contextSize) * 3

\* the lengths of text.slice(0, n)
SliceLength(len, n) ==
    IF n >= 0 THEN Min(n, len) ELSE Max(len + n, 0)

\* splitter.splitText(prompt)[0] ?? '': the lengths of the first chunk
FirstChunkLengths(prompt, chunkSize) ==
    {n \in 0..prompt.len :
        \/ n = 0
        \/ n = prompt.len
        \/ chunkSize - MaxSlack <= n /\ n <= chunkSize}

\* a call trimPrompt(prompt, contextSize), the calls-th of the recursion
NewTp(prompt, contextSize, calls) ==
    [pc |-> "called", prompt |-> prompt, contextSize |-> contextSize,
     calls |-> calls, result |-> 0]

\* the call returns without recursing: '' for an empty prompt, the prompt
\* if it fits, prompt.slice(0, MinChunkSize) if chunkSize < MinChunkSize
ReturnsAtOnce(t) ==
    \/ t.prompt.len = 0
    \/ t.prompt.tokens <= t.contextSize
    \/ ChunkSize(t.prompt, t.contextSize) < MinChunkSize

TrimReturns ==
    /\ tp.pc = "called"
    /\ ReturnsAtOnce(tp)
    /\ tp' = [tp EXCEPT !.pc = "returned",
                        !.result = IF tp.prompt.len = 0 THEN 0
                                   ELSE IF tp.prompt.tokens <= tp.contextSize
                                   THEN tp.prompt.len
                                   ELSE SliceLength(tp.prompt.len, MinChunkSize)]
    /\ UNCHANGED <<inv, br, audit, run, vc>>

\* the first chunk has n characters and t tokens and is not as long as the
\* prompt: return trimPrompt(trimmedPrompt, contextSize)
TrimRecurses(n, t) ==
    /\ tp.pc = "called"
    /\ ~ReturnsAtOnce(tp)
    /\ n \in FirstChunkLengths(tp.prompt, ChunkSize(tp.prompt, tp.contextSize))
    /\ n # tp.prompt.len
    /\ t \in TokenCounts(n)
    /\ tp' = NewTp([len |-> n, tokens |-> t], tp.contextSize, tp.calls + 1)
    /\ UNCHANGED <<inv, br, audit, run, vc>>

\* the first chunk is as long as the prompt:
\* return trimPrompt(prompt.slice(0, chunkSize), contextSize)
TrimHardCut(t) ==
    /\ tp.pc = "called"
    /\ ~ReturnsAtOnce(tp)
    /\ tp.prompt.len \in FirstChunkLengths(tp.prompt,
                                           ChunkSize(tp.prompt, tp.contextSize))
    /\ LET n == SliceLength(tp.prompt.len, ChunkSize(tp.prompt, tp.contextSize))
       IN /\ t \in TokenCounts(n)
          /\ tp' = NewTp([len |-> n, tokens |-> t], tp.contextSize, tp.calls + 1)
    /\ UNCHANGED <<inv, br, audit, run, vc>>

InitTrim ==
    /\ \E prompt \in Prompts : \E contextSize \in ContextSizes(prompt) :
          tp = NewTp(prompt, contextSize, 1)
    /\ inv = <<>>
    /\ br = <<>>
    /\ audit = AuditIdle
    /\ run = RunIdle
    /\ vc = VcIdle

\* the chunk sizes and token counts that occur are those of a prompt of the model
NextTrim ==
    \/ TrimReturns
    \/ \E n \in FirstChunkLengths(tp.prompt, ChunkSize(tp.prompt, tp.contextSize)) :
          \E t \in TokenCounts(n) : TrimRecurses(n, t)
    \/ \E t \in TokenCounts(SliceLength(tp.prompt.len,
                                         ChunkSize(tp.prompt, tp.contextSize))) :
          TrimHardCut(t)

SpecTrim == InitTrim /\ [][NextTrim]_vars

(***************************************************************************)
(* Views of the audit state used by the properties.                        *)
(***************************************************************************)
AuditDone == audit.pc = "done"

\* the contact at position j of the sample
Sampled(j) == audit.contacts[audit.sample[j]]

DistinctEmails(contacts) ==
    \A i, j \in 1..Len(contacts) : i # j => contacts[i].email # contacts[j].email

\* the outcomes of a verification that found nothing to merge
Unverified == {"researchFailed", "extractFailed", "noCandidate"}

\* C1: for every sampled record whose original email is not empty, the
\* record auditContacts returns in its place has the original email.
OriginalEmailKept ==
    AuditDone =>
        \A j \in 1..Len(audit.sample) :
            Sampled(j).email # "" =>
                audit.map.vals[Sampled(j).email].email = Sampled(j).email

\* C2 as stated: for every input list, the verified list is as long as the
\* input list.
VerifiedLengthEqualsInput ==
    AuditDone => Len(audit.verifiedContacts) = Len(audit.contacts)

\* C2 as amended: for every input list whose emails are pairwise distinct,
\* every sampleSize and every outcome of the verifications, the verified
\* list is as long as the input list.
VerifiedLengthEqualsDistinctInput ==
    AuditDone /\ DistinctEmails(audit.contacts) =>
        Len(audit.verifiedContacts) = Len(audit.contacts)

\* two records with distinct emails, both sampled (sampleSize larger than the
\* list), one not verified and one merged with a candidate of another email
VerifiedLengthCase ==
    /\ AuditDone
    /\ Len(audit.contacts) = 2
    /\ DistinctEmails(audit.contacts)
    /\ audit.sampleSize > Len(audit.contacts)
    /\ Len(audit.log) = 2
    /\ \E j \in 1..2 : audit.log[j].outcome \in Unverified
    /\ \E j \in 1..2 :
          /\ audit.log[j].outcome = "merged"
          /\ audit.map.vals[Sampled(j).email].email # Sampled(j).email
    /\ Len(audit.verifiedContacts) = 2

\* what C8 says of the sampled record at position j of the sample: it is
\* returned unchanged and no correction is recorded for it
ReturnedUnchanged(j) ==
    /\ audit.log[j].ncorr = 0
    /\ \E k \in 1..Len(audit.verifiedContacts) : audit.verifiedContacts[k] = Sampled(j)
    /\ audit.map.vals[Sampled(j).email] = Sampled(j)
    /\ \A k \in 1..Len(audit.corrections) :
          audit.corrections[k].email # Sampled(j).email

\* every sampled record has been through verifyContact when auditContacts returns
AllSampledVerified ==
    /\ Len(audit.log) = Len(audit.sample)
    /\ \A k \in 1..Len(audit.corrections) :
          \E j \in 1..Len(audit.sample) :
              /\ audit.log[j].outcome = "merged"
              /\ audit.corrections[k].email = Sampled(j).email

\* C8 as stated: a sampled record whose re-research or extraction fails or
\* yields no candidate is returned unchanged with no correction, and every
\* other sampled record is still verified.
UnverifiedReturnedUnchanged ==
    AuditDone =>
        /\ AllSampledVerified
        /\ \A j \in 1..Len(audit.log) :
              audit.log[j].outcome \in Unverified => ReturnedUnchanged(j)

\* C8 as amended: the same, for input lists whose emails are pairwise distinct.
UnverifiedReturnedUnchangedDistinct ==
    AuditDone /\ DistinctEmails(audit.contacts) =>
        /\ AllSampledVerified
        /\ \A j \in 1..Len(audit.log) :
              audit.log[j].outcome \in Unverified => ReturnedUnchanged(j)

\* the first sampled record's re-research failed and the second one was
\* still verified, with a correction
UnverifiedCase ==
    /\ AuditDone
    /\ DistinctEmails(audit.contacts)
    /\ Len(audit.log) = 2
    /\ audit.log[1].outcome = "researchFailed"
    /\ audit.log[2].outcome = "merged"
    /\ audit.log[2].ncorr > 0
    /\ ReturnedUnchanged(1)

\* C9: verification runs on exactly min(sampleSize, records.length) records,
\* on none when that number is zero or negative, and on each record at most once.
SampleIsMinOfSizeAndLength ==
    AuditDone =>
        /\ Len(audit.log) = Max(Min(audit.sampleSize, Len(audit.contacts)), 0)
        /\ NoDup(audit.sample)

\* the positions of the input list that are not in the sample
NotSampled == {i \in 1..Len(audit.contacts) : i \notin Range(audit.sample)}

InVerifiedList(c) ==
    \E k \in 1..Len(audit.verifiedContacts) : audit.verifiedContacts[k] = c

\* C11 as stated: every input record that is not in the sample is in the
\* verified list with all its fields as in the input, whatever the outcomes of
\* the verifications of the sampled records.
NotSampledPassThrough ==
    AuditDone => \A i \in NotSampled : InVerifiedList(audit.contacts[i])

\* C11 as amended: the same, for input lists whose emails are pairwise distinct.
NotSampledPassThroughDistinct ==
    AuditDone /\ DistinctEmails(audit.contacts) =>
        \A i \in NotSampled : InVerifiedList(audit.contacts[i])

\* of two records with distinct emails one is sampled, merged with a
\* candidate and corrected, and the other is not sampled and is returned
NotSampledCase ==
    /\ AuditDone
    /\ DistinctEmails(audit.contacts)
    /\ Len(audit.contacts) = 2
    /\ Len(audit.sample) = 1
    /\ Len(audit.log) = 1
    /\ audit.log[1].outcome = "merged"
    /\ audit.log[1].ncorr > 0
    /\ ~InVerifiedList(Sampled(1))
    /\ \E i \in NotSampled : InVerifiedList(audit.contacts[i])

\* C13: the email report is sent only after insertContacts has returned a
\* result that reports no error and at least one inserted or updated
\* contact; when the insertion fails no email is sent.
EmailOnlyAfterSuccessfulInsertion ==
    run.sends > 0 =>
        /\ run.returned
        /\ run.dbResult.errors = 0
        /\ run.dbResult.inserted + run.dbResult.updated > 0

\* verifications whose deepResearch returned at least one learning
WithLearnings == {j \in 1..Len(audit.log) : audit.log[j].hadLearnings}

BranchesOf(q) == {Append(q, i) : i \in 1..inv[q].nq}

Settled(p) == br[p].status \in {"done", "rejected"}

\* branch functions whose firecrawl.search call has been made
SearchCalled(q) == {p \in BranchesOf(q) : br[p].status # "queued"}

\* branch functions whose processSerpResult call has been made
ProcessCalled(q) ==
    {p \in BranchesOf(q) :
        \/ br[p].status \in {"process", "recurse", "rejected"}
        \/ br[p].status = "done" /\ br[p].fault # "search"}

\* calls to the language-model service made so far by the whole call tree
LlmCalls ==
    Cardinality(DOMAIN inv) + Cardinality(UNION {ProcessCalled(q) : q \in DOMAIN inv})

\* calls to the search service made so far by the whole call tree
SearchCalls == Cardinality(UNION {SearchCalled(q) : q \in DOMAIN inv})

Top == inv[<<>>]

\* Branch p of invocation q failed with the given fault and that failure
\* stayed inside the branch: the branch returned the empty result, the
\* invocation did not throw unless a sibling's recursive call threw, it is
\* not left waiting once every branch has settled, and what it returns holds
\* the result of every sibling (for a sibling that searched and extracted
\* at the last level: the URLs of its search and its extracted learnings).
Contained(q, p) ==
    /\ br[p].status = "done"
    /\ br[p].learnings = <<>>
    /\ br[p].visitedUrls = <<>>
    /\ inv[q].status = "failed" =>
          \E p2 \in BranchesOf(q) \ {p} :
              br[p2].status = "rejected" /\ p2 \in DOMAIN inv /\ inv[p2].status = "failed"
    /\ inv[q].status = "running" => \E p2 \in BranchesOf(q) : ~Settled(p2)
    /\ inv[q].status = "done" =>
          \A p2 \in BranchesOf(q) \ {p} :
              /\ br[p2].status = "done"
              /\ Range(br[p2].learnings) \subseteq Range(inv[q].outLearnings)
              /\ Range(br[p2].visitedUrls) \subseteq Range(inv[q].outUrls)
              /\ br[p2].fault = "none" /\ inv[q].depth - 1 <= 0 =>
                    /\ Range(br[p2].newLearnings) \subseteq Range(inv[q].outLearnings)
                    /\ Range(br[p2].newUrls) \subseteq Range(inv[q].outUrls)

\* a returned invocation q in which branch p failed with fault f while a
\* sibling found a URL and a learning that are in the result
ContainedCase(f) ==
    \E q \in DOMAIN inv : \E p \in BranchesOf(q) : \E p2 \in BranchesOf(q) \ {p} :
        /\ inv[q].status = "done"
        /\ br[p].fault = f
        /\ br[p2].fault = "none"
        /\ br[p2].newUrls # <<>>
        /\ br[p2].newLearnings # <<>>
        /\ Range(br[p2].newUrls) \subseteq Range(inv[q].outUrls)
        /\ Range(br[p2].newLearnings) \subseteq Range(inv[q].outLearnings)

\* C3: a branch whose search call failed (timeout or any error) contributes
\* the empty result, its error does not reach the caller of deepResearch, and
\* the result of every sibling branch is in the merged result.
SearchFailureContained ==
    \A q \in DOMAIN inv : \A p \in BranchesOf(q) :
        br[p].fault = "search" => Contained(q, p)

SearchFailureCase == ContainedCase("search")

NonPositiveReturnsEmptyWithoutCalls ==
    (Top.breadth <= 0 \/ Top.depth <= 0) =>
        /\ Top.status # "failed"
        /\ Top.status = "done" =>
              /\ LlmCalls = 0
              /\ SearchCalls = 0
              /\ Top.outLearnings = <<>>
              /\ Top.outUrls = <<>>

\* C6: the learnings and the visitedUrls returned by any deepResearch
\* invocation hold no entry twice.
ResultsHaveNoDuplicates ==
    \A q \in DOMAIN inv :
        inv[q].status = "done" => NoDup(inv[q].outLearnings) /\ NoDup(inv[q].outUrls)

\* two sibling branches found the URL that was passed in as already visited
DuplicateUrlCase ==
    \E q \in DOMAIN inv : \E p1, p2 \in BranchesOf(q) :
        /\ p1 # p2
        /\ inv[q].status = "done"
        /\ inv[q].visitedUrls # <<>>
        /\ \E x \in Range(inv[q].visitedUrls) :
              /\ x \in Range(br[p1].newUrls) /\ x \in Range(br[p2].newUrls)
              /\ x \in Range(br[p1].visitedUrls) /\ x \in Range(br[p2].visitedUrls)
              /\ x \in Range(inv[q].outUrls)

\* C7: in every invocation, at most ConcurrencyLimit branches have started
\* and not yet finished.
ActiveWithinLimit ==
    \A q \in DOMAIN inv : Active(Cur, q) <= ConcurrencyLimit

\* more sub-queries than slots: the limit is reached and a branch waits
LimitReachedCase ==
    \E q \in DOMAIN inv :
        /\ inv[q].nq > ConcurrencyLimit
        /\ Active(Cur, q) = ConcurrencyLimit
        /\ Queued(Cur, q) # {}

\* C10: in every invocation the number of sub-queries dispatched to the
\* search service is at most the invocation's breadth, and zero when the
\* breadth is <= 0.
DispatchedAtMostBreadth ==
    \A q \in DOMAIN inv :
        Cardinality(SearchCalled(q)) <= Max(inv[q].breadth, 0)

\* C12: when the generateSerpQueries call of the top-level invocation fails,
\* the top-level call fails (with that error) and no search call is made.
TopGenerationFailureIsFatal ==
    Top.fault = "gen" =>
        /\ Top.status = "failed"
        /\ Top.nq = 0
        /\ SearchCalls = 0
        /\ DOMAIN br = {}

\* the top-level call was asked for at least one query and its
\* generateSerpQueries call failed
TopGenerationFailureCase ==
    /\ Top.breadth > 0
    /\ Top.depth > 0
    /\ Top.fault = "gen"
    /\ Top.status = "failed"
    /\ SearchCalls = 0

\* C15: when generateSerpQueries fails in a nested invocation, the branch
\* that recursed absorbs the failure (it returns, it is not rejected), no
\* enclosing invocation fails because of it and the top-level call does not
\* fail.
NestedGenerationFailureAbsorbed ==
    \A q \in DOMAIN inv :
        q # <<>> /\ inv[q].fault = "gen" =>
            /\ br[q].status = "done"
            /\ inv[Front(q)].status # "failed"
            /\ Top.status # "failed"

\* C16: in a top-level call with breadth and depth of at least 1, what an
\* invocation returns holds every learning that was passed to it, and what
\* the top-level call returns holds every learning extracted by a branch (at
\* any level) whose search and extraction succeeded.
PriorLearningsKept ==
    Top.breadth >= 1 /\ Top.depth >= 1 =>
        /\ \A q \in DOMAIN inv :
              inv[q].status = "done" =>
                  Range(inv[q].learnings) \subseteq Range(inv[q].outLearnings)
        /\ Top.status = "done" =>
              \A p \in DOMAIN br :
                  br[p].status = "done" /\ br[p].fault = "none" =>
                      Range(br[p].newLearnings) \subseteq Range(Top.outLearnings)

(***************************************************************************)
(* Views of a verifyContact call used by the properties.                   *)
(***************************************************************************)
VcDone == vc.pc = "returned"

\* the candidate verifyContact chose
Chosen == vc.list[vc.chosen]

\* the three rules, each stated on lower-cased values
EmailEqual(c, o) == ToLowerCase(c.email) = ToLowerCase(o.email)

NameContains(c, o) == Includes(ToLowerCase(c.name), ToLowerCase(o.name))

NameContained(c, o) == Includes(ToLowerCase(o.name), ToLowerCase(c.name))

OrgAndRole(c, o) ==
    /\ ToLowerCase(c.company) = ToLowerCase(o.company)
    /\ Includes(ToLowerCase(c.position), ToLowerCase(o.position))

\* C17: when a candidate has the original's (non-empty) email, compared
\* case-insensitively, the candidate verifyContact chooses has that email,
\* wherever it is in the list and whatever other candidates match by name
\* or by organization and role.
EmailMatchChosen ==
    /\ VcDone
    /\ vc.contact.email # ""
    /\ \E i \in 1..Len(vc.list) : EmailEqual(vc.list[i], vc.contact)
    => vc.chosen # 0 /\ EmailEqual(Chosen, vc.contact)

\* candidate i of the list satisfies one of the three rules
Hit(i) ==
    \/ NameContains(vc.list[i], vc.contact)
    \/ EmailEqual(vc.list[i], vc.contact)
    \/ OrgAndRole(vc.list[i], vc.contact)

\* the chosen candidate matches by name (in either direction) and by
\* nothing else
ChosenByNameAlone ==
    /\ vc.chosen # 0
    /\ ~EmailEqual(Chosen, vc.contact)
    /\ NameContains(Chosen, vc.contact) \/ NameContained(Chosen, vc.contact)
    /\ ~OrgAndRole(Chosen, vc.contact)

\* C18 as stated: a candidate of another email that matches by name but not
\* by organization and role is chosen only by the fallback: when no
\* candidate of the list matches by email or by organization and role, it
\* is chosen only if it is the first candidate.
NameAloneOnlyByFallback ==
    /\ VcDone
    /\ ChosenByNameAlone
    /\ \A i \in 1..Len(vc.list) :
          ~EmailEqual(vc.list[i], vc.contact) /\ ~OrgAndRole(vc.list[i], vc.contact)
    => vc.chosen = 1

\* C18 as amended: the name rule holds of a candidate whose name contains
\* the original's name, whatever its organization and role; verifyContact
\* chooses the first candidate of the list that satisfies the name rule, the
\* email rule or the organization-and-role rule, and the first candidate
\* only when none satisfies a rule.
FirstHitChosen ==
    VcDone /\ vc.list # <<>> =>
        /\ vc.chosen \in 1..Len(vc.list)
        /\ \A i \in 1..Len(vc.list) :
              Hit(i) /\ (\A j \in 1..(i - 1) : ~Hit(j)) => vc.chosen = i
        /\ (\A i \in 1..Len(vc.list) : ~Hit(i)) => vc.chosen = 1

\* the second candidate matches by name alone and is chosen; the first one
\* satisfies no rule
NameAloneCase ==
    /\ VcDone
    /\ Len(vc.list) = 2
    /\ vc.chosen = 2
    /\ ~Hit(1)
    /\ NameContains(Chosen, vc.contact)
    /\ ~EmailEqual(Chosen, vc.contact)
    /\ ~OrgAndRole(Chosen, vc.contact)

\* the fields verifyContact compares
ComparedFields ==
    {"name", "email", "company", "position", "department", "city",
     "stateProvince", "country", "industry", "tags"}

\* both stringified values of field f are non-empty and they differ
Differs(f) ==
    /\ StringOf(vc.contact, f) # ""
    /\ StringOf(Chosen, f) # ""
    /\ StringOf(vc.contact, f) # StringOf(Chosen, f)

CorrectionsOf(f) == {k \in 1..Len(vc.corrections) : vc.corrections[k].field = f}

Extracted(p) ==
    \/ br[p].status = "recurse"
    \/ br[p].status \in {"done", "rejected"} /\ br[p].fault = "none"

\* n is the least integer that is at least b / 2
IsCeilOfHalf(n, b) == 2 * n >= b /\ 2 * (n - 1) < b

\* C20: a branch p of an invocation q with breadth b and depth d that has
\* searched and extracted recurses exactly when d - 1 > 0, and then with
\* breadth ceil(b / 2), depth d - 1 and the learnings and URLs of q followed
\* by its own; when d - 1 <= 0 it returns these learnings and URLs and makes
\* no further call.  A branch that failed does not recurse.
RecursesWhileDepthRemains ==
    \A p \in DOMAIN br :
        LET q == Front(p)
            l == inv[q].learnings \o br[p].newLearnings
            u == inv[q].visitedUrls \o br[p].newUrls
        IN /\ p \in DOMAIN inv <=> Extracted(p) /\ inv[q].depth - 1 > 0
           /\ p \in DOMAIN inv =>
                 /\ IsCeilOfHalf(inv[p].breadth, inv[q].breadth)
                 /\ inv[p].depth = inv[q].depth - 1
                 /\ inv[p].learnings = l
                 /\ inv[p].visitedUrls = u
           /\ Extracted(p) /\ inv[q].depth - 1 <= 0 =>
                 /\ br[p].status = "done"
                 /\ br[p].learnings = l
                 /\ br[p].visitedUrls = u
                 /\ \A p2 \in DOMAIN br : Len(p2) > Len(p) => SubSeq(p2, 1, Len(p)) # p

\* a branch of an invocation of breadth 1 and depth 2 recursed with breadth 1
\* and depth 1 and its learning, and a branch of that invocation returned
\* the learnings of both levels
RecursionCase ==
    \E p \in DOMAIN br \cap DOMAIN inv : \E p2 \in BranchesOf(p) :
        /\ inv[Front(p)].breadth = 1
        /\ inv[Front(p)].depth = 2
        /\ inv[p].breadth = 1
        /\ inv[p].depth = 1
        /\ br[p].newLearnings # <<>>
        /\ inv[p].learnings = inv[Front(p)].learnings \o br[p].newLearnings
        /\ br[p2].status = "done"
        /\ br[p2].fault = "none"
        /\ p2 \notin DOMAIN inv
        /\ br[p2].learnings = inv[p].learnings \o br[p2].newLearnings
        /\ br[p2].newLearnings # <<>>

\* the top-level call has returned or thrown
TopSettled == Top.status \in {"done", "failed"}

\* the number of nested invocations on the path to q, q included
Level(q) == Len(q) + 1

\* how far a call or a branch has come: each status counts the steps behind it
InvRank(status) == CASE status = "gen" -> 1
                     [] status = "running" -> 2
                     [] OTHER -> 3

BrRank(status) == CASE status = "queued" -> 1
                    [] status = "search" -> 2
                    [] status = "process" -> 3
                    [] status = "recurse" -> 4
                    [] OTHER -> 5

RECURSIVE RankSum(_, _, _)
RankSum(f, Rank(_), S) ==
    IF S = {} THEN 0
    ELSE LET x == CHOOSE y \in S : TRUE
         IN Rank(f[x].status) + RankSum(f, Rank, S \ {x})

Progress == RankSum(inv, InvRank, DOMAIN inv) + RankSum(br, BrRank, DOMAIN br)

RECURSIVE Power(_, _)
Power(b, k) == IF k = 0 THEN 1 ELSE b * Power(b, k - 1)

\* the progress of a call tree of d levels in which every invocation has
\* dispatched MaxQueries branches and every one of them has settled
RECURSIVE FullProgress(_)
FullProgress(d) ==
    IF d < 1 THEN 0
    ELSE 3 * Power(MaxQueries, d - 1) + 5 * Power(MaxQueries, d)
         + FullProgress(d - 1)

\* the steps a top-level call of depth d can still take
Remaining == FullProgress(Top.depth) - Progress

\* some call to the language model or to the search service is pending: the
\* action of its return and the action of its failure are enabled
Pending ==
    \/ \E q \in DOMAIN inv : inv[q].status = "gen"
    \/ \E p \in DOMAIN br : br[p].status \in {"search", "process"}

\* C21: for a top-level call with depth d >= 1 no invocation is nested more
\* than d levels deep, and when every pending call eventually returns or
\* fails the top-level call eventually returns or throws: until it has, some
\* call is pending, and every return or failure of a call lowers the natural
\* number Remaining, so that only finitely many happen.
NestingBoundedAndCompletes ==
    /\ [](Top.depth >= 1 =>
            /\ \A q \in DOMAIN inv : Level(q) <= Top.depth
            /\ Remaining \in Nat
            /\ ~TopSettled => Pending)
    /\ [][Top.depth >= 1 => Remaining' < Remaining]_vars

\* a call of depth 2 has returned after an invocation at the second level
NestingCase ==
    /\ Top.depth = 2
    /\ Top.status = "done"
    /\ \E q \in DOMAIN inv : Level(q) = 2 /\ inv[q].status = "done" /\ inv[q].nq > 0

\* What deepResearch returns for the responses the services gave, computed
\* one call after the other from the recorded responses alone (the number of
\* queries kept, the URLs found, the learnings extracted, the call that
\* failed): invocation q called with the learnings l and the URLs u.
RECURSIVE Expected(_, _, _)
RECURSIVE ExpectedBranches(_, _, _, _)
ExpectedBranch(p, l, u) ==
    IF br[p].fault # "none"
    THEN [throws |-> FALSE, learnings |-> <<>>, urls |-> <<>>]
    ELSE LET allLearnings == l \o br[p].newLearnings
             allUrls      == u \o br[p].newUrls
         IN IF Top.depth - Len(p) > 0
            THEN Expected(p, allLearnings, allUrls)
            ELSE [throws |-> FALSE, learnings |-> allLearnings, urls |-> allUrls]

ExpectedBranches(q, n, l, u) ==
    IF n = 0 THEN [throws |-> FALSE, learnings |-> <<>>, urls |-> <<>>]
    ELSE LET a == ExpectedBranches(q, n - 1, l, u)
             b == ExpectedBranch(Append(q, n), l, u)
         IN [throws |-> a.throws \/ b.throws,
             learnings |-> a.learnings \o b.learnings,
             urls |-> a.urls \o b.urls]

Expected(q, l, u) ==
    IF inv[q].fault = "gen"
    THEN [throws |-> TRUE, learnings |-> <<>>, urls |-> <<>>]
    ELSE LET r == ExpectedBranches(q, inv[q].nq, l, u)
         IN [throws |-> r.throws, learnings |-> Dedup(r.learnings),
             urls |-> Dedup(r.urls)]

ExpectedTop == Expected(<<>>, Top.learnings, Top.visitedUrls)

\* C22: for fixed responses of the language model and the search service the
\* sets of learnings and of visited URLs a top-level call returns are the same
\* in every interleaving and completion order of its branches: it returns
\* when every branch has returned, the sets are those computed from the
\* responses alone, and the call throws in one
\* interleaving only if some generateSerpQueries call failed, with which it
\* throws in every interleaving.
ResultIndependentOfInterleaving ==
    /\ Top.status = "done" =>
          /\ \A p \in DOMAIN br : br[p].status = "done"
          /\ ~ExpectedTop.throws
          /\ Range(Top.outLearnings) = Range(ExpectedTop.learnings)
          /\ Range(Top.outUrls) = Range(ExpectedTop.urls)
    /\ Top.status = "failed" => \E q \in DOMAIN inv : inv[q].fault = "gen"

\* a call has returned the results of two branches that ran concurrently, one
\* of them with a nested call
InterleavedCase ==
    /\ Top.status = "done"
    /\ Top.nq >= 2
    /\ <<1>> \in DOMAIN inv
    /\ br[<<2>>].newLearnings # <<>>
    /\ br[<<1>>].newLearnings # br[<<2>>].newLearnings
    /\ Range(Top.outLearnings) = {"l1", "l2"}

\* the position of the first write of file f in the run, 0 if it was not written
WrittenAt(f) ==
    IF f \in Range(run.files)
    THEN CHOOSE i \in DOMAIN run.files :
            /\ run.files[i] = f
            /\ \A j \in 1..(i - 1) : run.files[j] # f
    ELSE 0

\* C23: in a run with outputFormat 'contacts_db' that has extracted at least
\* one contact, contacts.json is written before report.md, with or without
\* auditingCriteria; a report that states 'Contact details saved to
\* contacts.json' is written after contacts.json.
ContactsSavedBeforeReport ==
    WrittenAt("report.md") > 0 =>
       /\ (run.format = "contacts_db" /\ Len(run.contacts) > 0) =>
             (WrittenAt("contacts.json") > 0
              /\ WrittenAt("contacts.json") < WrittenAt("report.md"))
       /\ run.mentions => WrittenAt("contacts.json") > 0

\* the record auditContacts returns in the place of the sampled record j
ReturnedFor(j) == audit.map.vals[Sampled(j).email]

\* C24: for every sampled record and every compared field, if the value of
\* the field in the record auditContacts returns differs from the value in
\* the original record, the returned corrections hold a Correction with the
\* record's email and that field (input lists with pairwise distinct emails,
\* where the returned record of a sampled record is the one stored under its
\* email).
AuditTrailComplete ==
    AuditDone /\ DistinctEmails(audit.contacts) =>
        \A j \in 1..Len(audit.sample) : \A f \in ComparedFields :
            StringOf(ReturnedFor(j), f) # StringOf(Sampled(j), f) =>
                \E k \in 1..Len(audit.corrections) :
                    /\ audit.corrections[k].email = Sampled(j).email
                    /\ audit.corrections[k].field = f

\* C25: if the emails of the input records are pairwise distinct, the emails
\* of the records auditContacts returns are pairwise distinct, for every
\* sample and every list of candidates.
VerifiedEmailsDistinct ==
    AuditDone /\ DistinctEmails(audit.contacts) =>
        DistinctEmails(audit.verifiedContacts)

\* the contacts the returned InsertionResult counts
Counted == run.dbResult.inserted + run.dbResult.updated + run.dbResult.rejected

\* withRetry resolved: the result holds the errors of the rejected contacts
\* and no 'Database operation failed' error
InsertionSucceeded == run.dbResult.errors = run.dbResult.rejected

\* C26: when insertContacts has returned, inserted + updated + rejected is at
\* most the number of contacts passed in, and equals it when the operation
\* succeeded, whether or not attempts were retried.
EachContactCountedOnce ==
    run.returned =>
        /\ Counted <= Len(run.contacts)
        /\ InsertionSucceeded => Counted = Len(run.contacts)

\* the branch functions of invocation q that hold a slot of its limiter
Running(q) ==
    {i \in 1..inv[q].nq : br[Append(q, i)].status \in {"search", "process", "recurse"}}

IsPrefix(p, r) == Len(p) <= Len(r) /\ SubSeq(r, 1, Len(p)) = p

\* every call of the subtree of branch p has returned or failed
SubtreeCompleted(p) ==
    /\ \A r \in DOMAIN br : IsPrefix(p, r) => br[r].status \in {"done", "rejected"}
    /\ \A q \in DOMAIN inv : IsPrefix(p, q) => inv[q].status \in {"done", "failed"}

SearchesInFlight == Cardinality({p \in DOMAIN br : br[p].status = "search"})

\* C27: in a top-level call of depth d >= 1 every invocation has at most
\* ConcurrencyLimit branch functions holding a slot, a branch function gives
\* its slot back only when its whole recursive subtree has completed, and at
\* most ConcurrencyLimit^d search calls are in flight.
CapPerInvocation ==
    Top.depth >= 1 =>
        /\ \A q \in DOMAIN inv : Cardinality(Running(q)) <= ConcurrencyLimit
        /\ \A p \in DOMAIN br :
              br[p].status \in {"done", "rejected"} => SubtreeCompleted(p)
        /\ SearchesInFlight <= Power(ConcurrencyLimit, Top.depth)

\* insertContacts is between two steps of an attempt that holds a client
InAttempt == run.pc = "insert" /\ run.db.step \in {"begin", "insert", "commit", "rollback"}

\* C28: in insertContacts a client is held exactly from its acquisition to
\* the end of the attempt, a transaction is open exactly from a BEGIN to the
\* COMMIT or ROLLBACK that ends it, BEGIN is sent only when no transaction
\* is open, and the client is released only when none is, on every path.
TransactionsBracketed ==
    /\ InAttempt <=> run.db.held
    /\ (run.pc = "insert" /\ run.db.step \in {"insert", "commit", "rollback"})
          => run.db.txn
    /\ (run.pc = "insert" /\ run.db.step = "begin") => ~run.db.txn
    /\ ~run.db.held => ~run.db.txn

\* C29: withRetry invokes its operation at most MaxRetries times (the sends
\* of the email report, the attempts of the database operation), does not
\* invoke it again once an invocation has succeeded, and throws only after
\* MaxRetries failed invocations, the error of the last of them.
WithRetryBounded ==
    /\ [](/\ run.sends <= MaxRetries
          /\ run.pc \in {"email", "emailBackoff"} => run.attempt = run.sends
          /\ run.pc = "insert" => run.db.attempt <= MaxRetries
          /\ run.thrown # 0 =>
                (run.thrown = MaxRetries /\ run.sends = MaxRetries /\ ~run.delivered)
          /\ (run.returned /\ ~InsertionSucceeded) => run.db.attempt = MaxRetries)
    /\ [][/\ run.delivered => (run'.sends = run.sends /\ run'.thrown = 0)
          /\ run.returned => run'.db = run.db]_vars

\* the email report was sent three times without success and withRetry has
\* thrown the third error
WithRetryGaveUp ==
    /\ run.pc = "done"
    /\ run.sends = MaxRetries
    /\ run.thrown = MaxRetries
    /\ ~run.delivered

\* C30: trimPrompt terminates for every prompt and context size: a call
\* returns at once or recurses, and the prompt of a recursive call is strictly
\* shorter than the prompt of the call that makes it, so that the lengths of
\* the prompts of a recursion are a falling sequence of natural numbers.
TrimPromptShrinks ==
    /\ [](tp.pc = "called" =>
            /\ tp.prompt.len \in Nat
            /\ \/ ReturnsAtOnce(tp)
               \/ FirstChunkLengths(tp.prompt,
                                    ChunkSize(tp.prompt, tp.contextSize)) # {})
    /\ [][tp'.pc = "called" => tp'.prompt.len < tp.prompt.len]_vars

\* a prompt was trimmed in two recursive calls, the first after a hard cut
\* or a chunk, and the third call has returned
TrimmedTwice ==
    /\ tp.pc = "returned"
    /\ tp.calls = 3
    /\ tp.result > 0

====
